---- MODULE Spec2Model ----
(***************************************************************************)
(* Model of app_modern.py: the Flask service that serves heart-disease     *)
(* predictions from a pickled classifier, with the rule-based              *)
(* mock_prediction as fallback.                                            *)
(*                                                                         *)
(* Python floats are IEEE-754 doubles.  The doubles the scorer computes    *)
(* all lie in [0, 2), so a double is modelled exactly as the integer       *)
(* N = value * 2^59, written as four 15-bit limbs <<l1, l2, l3, l4>>       *)
(* (l1 most significant), and every arithmetic operation is the exact      *)
(* operation followed by rounding to 53 significant bits, ties to even.    *)
(***************************************************************************)
EXTENDS Integers, Sequences, FiniteSets, TLC

----------------------------------------------------------------------------
(* IEEE-754 double arithmetic on [0, 2)                                    *)

LimbBase == 32768

Pow2(n) == IF n = 0 THEN 1 ELSE IF n = 1 THEN 2 ELSE IF n = 2 THEN 4
      ELSE IF n = 3 THEN 8 ELSE IF n = 4 THEN 16 ELSE IF n = 5 THEN 32
      ELSE IF n = 6 THEN 64 ELSE IF n = 7 THEN 128 ELSE IF n = 8 THEN 256
      ELSE IF n = 9 THEN 512 ELSE IF n = 10 THEN 1024 ELSE IF n = 11 THEN 2048
      ELSE IF n = 12 THEN 4096 ELSE IF n = 13 THEN 8192 ELSE IF n = 14 THEN 16384
      ELSE 32768

\* Carry-propagate four limb sums (each below 2^31) into four 15-bit limbs.
Normalize(s1, s2, s3, s4) ==
    LET c4 == s4 \div LimbBase
        c3 == (s3 + c4) \div LimbBase
        c2 == (s2 + c3) \div LimbBase
    IN  <<(s1 + c2) % LimbBase, (s2 + c3) % LimbBase,
          (s3 + c4) % LimbBase, s4 % LimbBase>>

ExactAdd(a, b) == Normalize(a[1] + b[1], a[2] + b[2], a[3] + b[3], a[4] + b[4])

ExactMulInt(k, a) == Normalize(k * a[1], k * a[2], k * a[3], k * a[4])

\* a - b for a >= b, with borrows.
ExactSub(a, b) ==
    LET d4 == a[4] - b[4]
        b4 == IF d4 < 0 THEN 1 ELSE 0
        d3 == a[3] - b[3] - b4
        b3 == IF d3 < 0 THEN 1 ELSE 0
        d2 == a[2] - b[2] - b3
        b2 == IF d2 < 0 THEN 1 ELSE 0
        d1 == a[1] - b[1] - b2
    IN  <<d1, d2 + b2 * LimbBase, d3 + b3 * LimbBase, d4 + b4 * LimbBase>>

\* Number of significant bits of one limb (0 for 0).
LimbBits(l) == IF l = 0 THEN 0
               ELSE CHOOSE n \in 1..15 : Pow2(n - 1) <= l /\ l < Pow2(n)

\* Number of significant bits of the 60-bit integer.
BitLength(a) == IF a[1] # 0 THEN 45 + LimbBits(a[1])
                ELSE IF a[2] # 0 THEN 30 + LimbBits(a[2])
                ELSE IF a[3] # 0 THEN 15 + LimbBits(a[3])
                ELSE LimbBits(a[4])

\* Round to nearest double: keep 53 significant bits, ties to even.
Round(a) ==
    LET d == BitLength(a) - 53
    IN  IF d <= 0 THEN a
        ELSE LET rem == a[4] % Pow2(d)
                 half == Pow2(d - 1)
                 odd == (a[4] \div Pow2(d)) % 2 = 1
                 trunc == <<a[1], a[2], a[3], a[4] - rem>>
             IN  IF rem > half \/ (rem = half /\ odd)
                 THEN ExactAdd(trunc, <<0, 0, 0, Pow2(d)>>)
                 ELSE trunc

FMulInt(k, a) == Round(ExactMulInt(k, a))
FAdd(a, b) == Round(ExactAdd(a, b))
FSub(a, b) == Round(ExactSub(a, b))

Less(a, b) ==
    \/ a[1] < b[1]
    \/ a[1] = b[1] /\ a[2] < b[2]
    \/ a[1] = b[1] /\ a[2] = b[2] /\ a[3] < b[3]
    \/ a[1] = b[1] /\ a[2] = b[2] /\ a[3] = b[3] /\ a[4] < b[4]

\* Python's min(a, b): the first argument unless the second is smaller.
PyMin(a, b) == IF Less(b, a) THEN b ELSE a

\* The literals of mock_prediction as doubles.
D0_15 == <<2457, 19660, 26214, 13104>>     \* 0.15 = 0x1.3333333333333p-3
D0_1 == <<1638, 13107, 6553, 19664>>       \* 0.1  = 0x1.999999999999ap-4
D0_9 == <<14745, 19660, 26214, 13120>>     \* 0.9  = 0x1.ccccccccccccdp-1
D1_0 == <<16384, 0, 0, 0>>                 \* 1    = 0x1.0000000000000p+0
D0_5 == <<8192, 0, 0, 0>>                  \* 0.5  = 0x1.0000000000000p-1

----------------------------------------------------------------------------
(* Python values: a feature is a number, a JSON string or None.            *)

PyNum(n) == [t |-> "num", v |-> n]
PyStr == [t |-> "str", v |-> 0]
PyNone == [t |-> "NoneType", v |-> 0]

\* x > n and x < n raise TypeError unless x is a number; x == n never raises.
OrderRaises(x) == x.t # "num"
PyGt(x, n) == x.v > n
PyLt(x, n) == x.v < n
PyEq(x, n) == x.t = "num" /\ x.v = n

\* str(e) of the TypeError that x > n (op ">") or x < n (op "<") raises.
TypeErrorText(op, x) ==
    IF op = ">"
    THEN (IF x.t = "str"
          THEN "'>' not supported between instances of 'str' and 'int'"
          ELSE "'>' not supported between instances of 'NoneType' and 'int'")
    ELSE (IF x.t = "str"
          THEN "'<' not supported between instances of 'str' and 'int'"
          ELSE "'<' not supported between instances of 'NoneType' and 'int'")

FEATURE_NAMES ==
    <<"age", "sex", "cp", "trestbps", "chol", "fbs",
      "restecg", "thalach", "exang", "oldpeak", "slope", "ca", "thal">>

----------------------------------------------------------------------------
(* mock_prediction                                                         *)

\* risk_score with typical angina counted once instead of twice.
risk_score_cp_once(features) ==
      (IF PyGt(features[1], 55) THEN 1 ELSE 0)
    + (IF PyEq(features[2], 1) THEN 1 ELSE 0)
    + (IF PyEq(features[3], 0) THEN 1 ELSE 0)
    + (IF PyGt(features[4], 140) THEN 1 ELSE 0)
    + (IF PyGt(features[5], 240) THEN 1 ELSE 0)
    + (IF PyLt(features[8], 120) THEN 1 ELSE 0)

risk_score(features) ==
      (IF PyGt(features[1], 55) THEN 1 ELSE 0)
    + (IF PyEq(features[2], 1) THEN 1 ELSE 0)
    + (IF PyEq(features[3], 0) THEN 2 ELSE 0)
    + (IF PyGt(features[4], 140) THEN 1 ELSE 0)
    + (IF PyGt(features[5], 240) THEN 1 ELSE 0)
    + (IF PyLt(features[8], 120) THEN 1 ELSE 0)

\* probability_disease clamped at 1.0 instead of 0.9.
probability_disease_clamp_one(score) == PyMin(D1_0, FAdd(FMulInt(score, D0_15), D0_1))

probability_disease(score) == PyMin(D0_9, FAdd(FMulInt(score, D0_15), D0_1))

probability_no_disease(score) == FSub(D1_0, probability_disease(score))

\* The threshold one too low.
prediction_of_from_2(score) == IF score >= 2 THEN 1 ELSE 0

prediction_of(score) == IF score >= 3 THEN 1 ELSE 0

\* The result of a call: either the returned pair or the raised exception.
mock_prediction(features) ==
    IF OrderRaises(features[1])
    THEN [raised |-> TRUE, exc |-> TypeErrorText(">", features[1])]
    ELSE IF OrderRaises(features[4])
    THEN [raised |-> TRUE, exc |-> TypeErrorText(">", features[4])]
    ELSE IF OrderRaises(features[5])
    THEN [raised |-> TRUE, exc |-> TypeErrorText(">", features[5])]
    ELSE IF OrderRaises(features[8])
    THEN [raised |-> TRUE, exc |-> TypeErrorText("<", features[8])]
    ELSE [raised |-> FALSE,
          prediction |-> prediction_of(risk_score(features)),
          probability |-> <<probability_no_disease(risk_score(features)),
                            probability_disease(risk_score(features))>>]

----------------------------------------------------------------------------
(* float(value) on the strings a form field can carry.  A string is a      *)
(* sequence of characters; the characters used are digits, "-", "+", " "   *)
(* and letters, on which float() accepts exactly                           *)
(* [spaces] [sign] digits [spaces].                                        *)

Digits == <<"0", "1", "2", "3", "4", "5", "6", "7", "8", "9">>
IsDigit(c) == \E k \in 1..10 : Digits[k] = c
DigitVal(c) == (CHOOSE k \in 1..10 : Digits[k] = c) - 1

RECURSIVE LStrip(_)
LStrip(s) == IF s # <<>> /\ Head(s) = " " THEN LStrip(Tail(s)) ELSE s
RECURSIVE RStrip(_)
RStrip(s) == IF s # <<>> /\ s[Len(s)] = " " THEN RStrip(SubSeq(s, 1, Len(s) - 1)) ELSE s

RECURSIVE DigitsValue(_, _)
DigitsValue(s, acc) ==
    IF s = <<>> THEN acc ELSE DigitsValue(Tail(s), 10 * acc + DigitVal(Head(s)))

PyFloat(value) ==
    LET s == RStrip(LStrip(value))
        signed == s # <<>> /\ Head(s) \in {"-", "+"}
        body == IF signed THEN Tail(s) ELSE s
    IN  IF body # <<>> /\ \A k \in 1..Len(body) : IsDigit(body[k])
        THEN [ok |-> TRUE,
              v |-> IF signed /\ Head(s) = "-" THEN 0 - DigitsValue(body, 0)
                    ELSE DigitsValue(body, 0)]
        ELSE [ok |-> FALSE, v |-> 0]

\* str(n) of a non-negative integer, as a browser form would send it.
RECURSIVE PyStrOfNat(_)
PyStrOfNat(n) == IF n < 10 THEN <<Digits[n + 1]>>
                 ELSE PyStrOfNat(n \div 10) \o <<Digits[(n % 10) + 1]>>

----------------------------------------------------------------------------
(* Process state                                                           *)

VARIABLES
    artifact,       \* best_knn_model.pkl: "absent", "corrupt", "classifier", "pickled_None"
    model,          \* the global model: "None" or "classifier"
    model_loaded,   \* the global model_loaded
    pc,             \* "boot" (module body not run yet), "idle", "responded"
    request,        \* the request being answered
    response,       \* the reply to it
    calls,          \* the predictor calls made while answering it, in order
    startup         \* what the load at startup found: [exists, unpickled]

vars == <<artifact, model, model_loaded, pc, request, response, calls, startup>>

path_exists == artifact # "absent"      \* os.path.exists('best_knn_model.pkl')

----------------------------------------------------------------------------
(* The classifier is the unpickled object; what a call on it does is not   *)
(* decided by this program.  One invocation either raises in predict, or   *)
(* raises in predict_proba, or returns a class label of the binary         *)
(* classifier and a probability pair.                                      *)

D0_25 == <<4096, 0, 0, 0>>                 \* 0.25
D0_75 == <<12288, 0, 0, 0>>                \* 0.75

ClassLabels == {0, 1}
ClassProbas == {<<D0_75, D0_25>>, <<D0_25, D0_75>>}

ClfOutcomes ==
    {[kind |-> "predict_raises", label |-> 0, proba |-> <<D0_75, D0_25>>],
     [kind |-> "proba_raises", label |-> 0, proba |-> <<D0_75, D0_25>>]}
    \cup {[kind |-> "ok", label |-> l, proba |-> p] : l \in ClassLabels, p \in ClassProbas}

\* Lines 110-122 and 167-179: the try around the classifier, else the scorer.
\* Yields what prediction, probability are bound to (or the exception that
\* leaves the block) and the calls made.
use_model(features, o) ==
    IF o.kind = "predict_raises"
    THEN [result |-> mock_prediction(features),
          calls |-> <<"model.predict", "mock_prediction">>]
    ELSE IF o.kind = "proba_raises"
    THEN [result |-> mock_prediction(features),
          calls |-> <<"model.predict", "model.predict_proba", "mock_prediction">>]
    ELSE [result |-> [raised |-> FALSE, prediction |-> o.label, probability |-> o.proba],
          calls |-> <<"model.predict", "model.predict_proba">>]

predict_dispatch(features, o) ==
    IF model_loaded /\ model # "None"
    THEN use_model(features, o)
    ELSE [result |-> mock_prediction(features), calls |-> <<"mock_prediction">>]

api_dispatch(features, o) ==
    IF model_loaded /\ model # "None"
    THEN use_model(features, o)
    ELSE [result |-> mock_prediction(features), calls |-> <<"mock_prediction">>]

\* The two levels swapped.
risk_level_swapped(prediction) == IF prediction = 1 THEN "Low" ELSE "High"

risk_level(prediction) == IF prediction = 1 THEN "High" ELSE "Low"

----------------------------------------------------------------------------
(* POST /predict                                                           *)

\* The loop with a field that is not a number read as 0.0 instead of refused.
RECURSIVE predict_read_lenient(_, _, _)
predict_read_lenient(form, i, features) ==
    IF i > Len(FEATURE_NAMES) THEN [ok |-> TRUE, features |-> features]
    ELSE LET feature == FEATURE_NAMES[i]
         IN  IF feature \notin DOMAIN form \/ form[feature] = <<>>
             THEN [ok |-> FALSE,
                   response |-> [error |-> <<"Missing value for ", feature>>,
                                 success |-> FALSE]]
             ELSE predict_read_lenient(form, i + 1,
                                       Append(features, PyNum(PyFloat(form[feature]).v)))

\* The loop over FEATURE_NAMES: the first offending field ends the request.
RECURSIVE predict_read(_, _, _)
predict_read(form, i, features) ==
    IF i > Len(FEATURE_NAMES) THEN [ok |-> TRUE, features |-> features]
    ELSE LET feature == FEATURE_NAMES[i]
         IN  IF feature \notin DOMAIN form \/ form[feature] = <<>>
             THEN [ok |-> FALSE,
                   response |-> [error |-> <<"Missing value for ", feature>>,
                                 success |-> FALSE]]
             ELSE IF ~PyFloat(form[feature]).ok
             THEN [ok |-> FALSE,
                   response |-> [error |-> <<"Invalid value for ", feature,
                                             ". Please enter a number.">>,
                                 success |-> FALSE]]
             ELSE predict_read(form, i + 1,
                               Append(features, PyNum(PyFloat(form[feature]).v)))

feature_dict(features) ==
    [f \in {FEATURE_NAMES[i] : i \in 1..Len(FEATURE_NAMES)} |->
        features[CHOOSE i \in 1..Len(FEATURE_NAMES) : FEATURE_NAMES[i] = f].v]

predict(form, o) ==
    LET read == predict_read(form, 1, <<>>)
    IN  IF ~read.ok THEN [response |-> read.response, calls |-> <<>>]
        ELSE LET d == predict_dispatch(read.features, o)
             IN  IF d.result.raised
                 THEN [response |-> [error |-> <<"Prediction error: ", d.result.exc>>,
                                     success |-> FALSE],
                       calls |-> d.calls]
                 ELSE [response |->
                          [prediction |-> d.result.prediction,
                           probability_no_disease |-> d.result.probability[1],
                           probability_disease |-> d.result.probability[2],
                           risk_level |-> risk_level(d.result.prediction),
                           input_features |-> feature_dict(read.features),
                           model_loaded |-> model_loaded,
                           success |-> TRUE],
                       calls |-> d.calls]

----------------------------------------------------------------------------
(* POST /api/predict                                                       *)
(* body.kind is what request.get_json() does: "null" returns None, "bad"   *)
(* raises (a body that is not JSON), "object" returns the dict body.obj.   *)

BadRequestText == "400 Bad Request"

\* The loop with data.get(feature, 0) in place of the membership test.
RECURSIVE api_read_default(_, _, _)
api_read_default(data, i, features) ==
    IF i > Len(FEATURE_NAMES) THEN [ok |-> TRUE, features |-> features]
    ELSE LET feature == FEATURE_NAMES[i]
         IN  api_read_default(data, i + 1,
                              Append(features, IF feature \in DOMAIN data
                                               THEN data[feature] ELSE PyNum(0)))

RECURSIVE api_read(_, _, _)
api_read(data, i, features) ==
    IF i > Len(FEATURE_NAMES) THEN [ok |-> TRUE, features |-> features]
    ELSE LET feature == FEATURE_NAMES[i]
         IN  IF feature \notin DOMAIN data
             THEN [ok |-> FALSE,
                   response |-> [error |-> <<"Missing feature: ", feature>>,
                                 success |-> FALSE]]
             ELSE api_read(data, i + 1, Append(features, data[feature]))

api_predict(body, o) ==
    IF body.kind = "bad"
    THEN [response |-> [error |-> <<"Prediction error: ", BadRequestText>>,
                        success |-> FALSE],
          calls |-> <<>>]
    ELSE IF body.kind = "null" \/ DOMAIN body.obj = {}
    THEN [response |-> [error |-> <<"No JSON data provided">>, success |-> FALSE],
          calls |-> <<>>]
    ELSE LET read == api_read(body.obj, 1, <<>>)
         IN  IF ~read.ok THEN [response |-> read.response, calls |-> <<>>]
             ELSE LET d == api_dispatch(read.features, o)
                  IN  IF d.result.raised
                      THEN [response |-> [error |-> <<"Prediction error: ", d.result.exc>>,
                                          success |-> FALSE],
                            calls |-> d.calls]
                      ELSE [response |->
                               [prediction |-> d.result.prediction,
                                probability_no_disease |-> d.result.probability[1],
                                probability_disease |-> d.result.probability[2],
                                risk_level |-> risk_level(d.result.prediction),
                                model_loaded |-> model_loaded,
                                success |-> TRUE],
                            calls |-> d.calls]

----------------------------------------------------------------------------
(* GET /health, GET /status, GET /                                         *)

health_check ==
    [status |-> "healthy",
     model_loaded |-> model_loaded,
     message |-> "Heart Disease Prediction API is running"]

Endpoints == <<"/", "/predict", "/api/predict", "/health", "/status">>

\* status reporting what the load at startup saw instead of asking the file system.
status_cached ==
    [app_name |-> "Heart Disease Prediction",
     status |-> "running",
     model_loaded |-> model_loaded,
     model_file_exists |-> startup.exists,
     features_count |-> Len(FEATURE_NAMES),
     endpoints |-> Endpoints]

status ==
    [app_name |-> "Heart Disease Prediction",
     status |-> "running",
     model_loaded |-> model_loaded,
     model_file_exists |-> path_exists,
     features_count |-> Len(FEATURE_NAMES),
     endpoints |-> Endpoints]

home == [template |-> "index.html"]

----------------------------------------------------------------------------
(* The requests a client sends                                             *)

Margin == 1     \* how far a value lies beyond its threshold, at most
MaxBad == 2     \* how many fields of one request are missing or malformed, at most

NFeatures == Len(FEATURE_NAMES)
FeatureIndex(f) == CHOOSE i \in 1..NFeatures : FEATURE_NAMES[i] = f

Unused == <<6, 7, 9, 10, 11, 12, 13>>   \* fbs, restecg, exang, oldpeak, slope, ca, thal

\* A numeric vector: b says which of the six conditions hold, d is the
\* distance from the thresholds, u names the unused field that is 1 (0: none).
Vec(b, d, u) ==
    [i \in 1..NFeatures |->
        IF i = 1 THEN (IF b[1] THEN 56 + d ELSE 55 - d)
        ELSE IF i = 2 THEN (IF b[2] THEN 1 ELSE 2 * d)
        ELSE IF i = 3 THEN (IF b[3] THEN 0 ELSE 1 + d)
        ELSE IF i = 4 THEN (IF b[4] THEN 141 + d ELSE 140 - d)
        ELSE IF i = 5 THEN (IF b[5] THEN 241 + d ELSE 240 - d)
        ELSE IF i = 8 THEN (IF b[6] THEN 119 - d ELSE 120 + d)
        ELSE IF u # 0 /\ Unused[u] = i THEN 1 ELSE 0]

FeatureVectors ==
    {Vec(b, d, 0) : b \in [1..6 -> BOOLEAN], d \in 0..Margin}
    \cup {Vec(b, 0, u) : b \in [1..6 -> BOOLEAN], u \in 1..Len(Unused)}

BaseVectors == {Vec([k \in 1..6 |-> x], 0, 0) : x \in BOOLEAN}

\* The fields that go missing or malformed: the first and the last field, a
\* field the scorer orders (thalach), one it tests for equality (sex) and
\* one it does not read (fbs).
BadFields == {1, 2, 6, 8, 13}
BadSets == {P \in SUBSET BadFields : Cardinality(P) \in 1..MaxBad}
Damages(kinds) == UNION {[P -> kinds] : P \in BadSets}
NoDamage == <<>>

FormKinds == {"missing", "empty", "letters", "blank", "padded", "negative"}

FormOf(vec, c) ==
    [f \in {FEATURE_NAMES[i] : i \in {j \in 1..NFeatures :
                                         j \notin DOMAIN c \/ c[j] # "missing"}} |->
        LET i == FeatureIndex(f)
        IN  IF i \notin DOMAIN c THEN PyStrOfNat(vec[i])
            ELSE IF c[i] = "empty" THEN <<>>
            ELSE IF c[i] = "letters" THEN <<"a", "b", "c">>
            ELSE IF c[i] = "blank" THEN <<" ">>
            ELSE IF c[i] = "padded" THEN <<" ">> \o PyStrOfNat(vec[i]) \o <<" ">>
            ELSE <<"-">> \o PyStrOfNat(vec[i] + 1)]

Forms ==
    {FormOf(v, NoDamage) : v \in FeatureVectors}
    \cup {FormOf(v, c) : v \in BaseVectors, c \in Damages(FormKinds)}

JsonKinds == {"missing", "string", "null"}

ObjectOf(vec, c) ==
    [f \in {FEATURE_NAMES[i] : i \in {j \in 1..NFeatures :
                                         j \notin DOMAIN c \/ c[j] # "missing"}} |->
        LET i == FeatureIndex(f)
        IN  IF i \notin DOMAIN c THEN PyNum(vec[i])
            ELSE IF c[i] = "string" THEN PyStr
            ELSE PyNone]

EmptyObject == <<>>

Bodies ==
    {[kind |-> "null", obj |-> EmptyObject], [kind |-> "bad", obj |-> EmptyObject],
     [kind |-> "object", obj |-> EmptyObject]}
    \cup {[kind |-> "object", obj |-> ObjectOf(v, NoDamage)] : v \in FeatureVectors}
    \cup {[kind |-> "object", obj |-> ObjectOf(v, c)] :
              v \in BaseVectors, c \in Damages(JsonKinds)}

NoBody == [kind |-> "none", obj |-> EmptyObject]
NoForm == <<>>
NoRequest == [method |-> "", path |-> "", form |-> NoForm, body |-> NoBody]
NoResponse == [none |-> TRUE]

----------------------------------------------------------------------------
(* Startup and the artifact file                                           *)

Init ==
    /\ artifact \in {"absent", "corrupt", "classifier", "pickled_None"}
    /\ model = "None"
    /\ model_loaded = FALSE
    /\ pc = "boot"
    /\ request = NoRequest
    /\ response = NoResponse
    /\ calls = <<>>
    /\ startup = [exists |-> FALSE, unpickled |-> FALSE]

\* pickle.load(file): raises on a file that does not unpickle.
pickle_load(content) ==
    IF content = "corrupt" THEN [raised |-> TRUE, value |-> "None"]
    ELSE IF content = "classifier" THEN [raised |-> FALSE, value |-> "classifier"]
    ELSE [raised |-> FALSE, value |-> "None"]

\* The load with model_loaded set before pickle.load has succeeded.
LoadModel_flag_first ==
    /\ pc = "boot"
    /\ IF path_exists
       THEN /\ model' = pickle_load(artifact).value
            /\ model_loaded' = TRUE
       ELSE UNCHANGED <<model, model_loaded>>
    /\ startup' = [exists |-> path_exists,
                   unpickled |-> path_exists /\ ~pickle_load(artifact).raised]
    /\ pc' = "idle"
    /\ UNCHANGED <<artifact, request, response, calls>>

\* Lines 11-20, run once when the module is imported.
LoadModel ==
    /\ pc = "boot"
    /\ IF path_exists /\ ~pickle_load(artifact).raised
       THEN /\ model' = pickle_load(artifact).value
            /\ model_loaded' = TRUE
       ELSE UNCHANGED <<model, model_loaded>>
    /\ startup' = [exists |-> path_exists,
                   unpickled |-> path_exists /\ ~pickle_load(artifact).raised]
    /\ pc' = "idle"
    /\ UNCHANGED <<artifact, request, response, calls>>

\* The file system, outside the process: the artifact is written or removed.
WriteArtifact ==
    /\ pc # "responded"
    /\ \E content \in {"corrupt", "classifier", "pickled_None"} :
          /\ content # artifact
          /\ artifact' = content
    /\ UNCHANGED <<model, model_loaded, pc, request, response, calls, startup>>

RemoveArtifact ==
    /\ pc # "responded"
    /\ artifact # "absent"
    /\ artifact' = "absent"
    /\ UNCHANGED <<model, model_loaded, pc, request, response, calls, startup>>

----------------------------------------------------------------------------
(* Requests                                                                *)

Answer(req, out) ==
    /\ request' = req
    /\ response' = out.response
    /\ calls' = out.calls
    /\ pc' = "responded"
    /\ UNCHANGED <<artifact, model, model_loaded, startup>>

\* The classifier's behaviour matters only in a request that reaches it.
Unconsulted == [kind |-> "predict_raises", label |-> 0, proba |-> <<D0_75, D0_25>>]
OutcomesIf(consulted) == IF consulted THEN ClfOutcomes ELSE {Unconsulted}

PostPredict ==
    /\ pc = "idle"
    /\ \E form \in Forms :
       \E o \in OutcomesIf(model_loaded /\ model # "None" /\ predict_read(form, 1, <<>>).ok) :
          Answer([method |-> "POST", path |-> "/predict", form |-> form, body |-> NoBody],
                 predict(form, o))

PostApiPredict ==
    /\ pc = "idle"
    /\ \E body \in Bodies :
       \E o \in OutcomesIf(/\ model_loaded /\ model # "None" /\ body.kind = "object"
                            /\ api_read(body.obj, 1, <<>>).ok) :
          Answer([method |-> "POST", path |-> "/api/predict", form |-> NoForm, body |-> body],
                 api_predict(body, o))

GetHealth ==
    /\ pc = "idle"
    /\ Answer([method |-> "GET", path |-> "/health", form |-> NoForm, body |-> NoBody],
              [response |-> health_check, calls |-> <<>>])

GetStatus ==
    /\ pc = "idle"
    /\ Answer([method |-> "GET", path |-> "/status", form |-> NoForm, body |-> NoBody],
              [response |-> status, calls |-> <<>>])

GetHome ==
    /\ pc = "idle"
    /\ Answer([method |-> "GET", path |-> "/", form |-> NoForm, body |-> NoBody],
              [response |-> home, calls |-> <<>>])

\* The reply is sent; the request's objects are dropped.
Reply ==
    /\ pc = "responded"
    /\ pc' = "idle"
    /\ request' = NoRequest
    /\ response' = NoResponse
    /\ calls' = <<>>
    /\ UNCHANGED <<artifact, model, model_loaded, startup>>

Next ==
    \/ LoadModel
    \/ WriteArtifact
    \/ RemoveArtifact
    \/ PostPredict
    \/ PostApiPredict
    \/ GetHealth
    \/ GetStatus
    \/ GetHome
    \/ Reply

Spec == Init /\ [][Next]_vars

----------------------------------------------------------------------------
(* Vocabulary of the properties                                            *)

Responded(path) == pc = "responded" /\ request.path = path
IsPost == pc = "responded" /\ request.path \in {"/predict", "/api/predict"}

\* The message names the field.
Mentions(error, f) == \E k \in 1..Len(error) : error[k] = f

UsedFallback == calls # <<>> /\ calls[Len(calls)] = "mock_prediction"
ClassifierFailed == Len(calls) >= 2 /\ calls[1] = "model.predict" /\ UsedFallback
ClassifierAnswered == calls = <<"model.predict", "model.predict_proba">>

\* The fields of the request that are missing, empty or not a number.
FormOffending ==
    {i \in 1..NFeatures :
        \/ FEATURE_NAMES[i] \notin DOMAIN request.form
        \/ request.form[FEATURE_NAMES[i]] = <<>>
        \/ ~PyFloat(request.form[FEATURE_NAMES[i]]).ok}
JsonMissing ==
    {i \in 1..NFeatures : FEATURE_NAMES[i] \notin DOMAIN request.body.obj}
JsonNonNumeric ==
    {i \in 1..NFeatures :
        /\ FEATURE_NAMES[i] \in DOMAIN request.body.obj
        /\ request.body.obj[FEATURE_NAMES[i]].t # "num"}
First(S) == CHOOSE i \in S : \A j \in S : i <= j

\* The feature vector of a request whose 13 fields were all read.
SentFeatures ==
    IF request.path = "/predict"
    THEN [i \in 1..NFeatures |-> PyNum(PyFloat(request.form[FEATURE_NAMES[i]]).v)]
    ELSE [i \in 1..NFeatures |-> request.body.obj[FEATURE_NAMES[i]]]
AllNumeric(v) == \A i \in 1..NFeatures : v[i].t = "num"

\* The tally as the specification words it.
Tally(v) ==
      (IF v[1].v > 55 THEN 1 ELSE 0) + (IF v[2].v = 1 THEN 1 ELSE 0)
    + (IF v[3].v = 0 THEN 2 ELSE 0) + (IF v[4].v > 140 THEN 1 ELSE 0)
    + (IF v[5].v > 240 THEN 1 ELSE 0) + (IF v[8].v < 120 THEN 1 ELSE 0)

\* A fallback answer to a numeric vector.
FallbackAnswer == IsPost /\ UsedFallback /\ response.success /\ AllNumeric(SentFeatures)

StartupValue == startup.exists /\ startup.unpickled

----------------------------------------------------------------------------
(* The Fallback Scorer                                                     *)

UnusedFields == {Unused[j] : j \in 1..Len(Unused)}
OtherValues == {0, 1, 2}

\* min(0.9, t * 0.15 + 0.1) for t = 0..7 as CPython prints it: 0.1, 0.25,
\* 0.4, 0.5499999999999999, 0.7, 0.85, 0.9, 0.9.
ScorerP1 ==
    <<<<1638, 13107, 6553, 19664>>, <<4096, 0, 0, 0>>,
      <<6553, 19660, 26214, 13120>>, <<9011, 6553, 19660, 26176>>,
      <<11468, 26214, 13107, 6528>>, <<13926, 13107, 6553, 19648>>,
      <<14745, 19660, 26214, 13120>>, <<14745, 19660, 26214, 13120>>>>

\* C1: for a numeric feature vector the Fallback Scorer returns label 1
\* exactly when the tally of the six conditions is at least 3, p1 =
\* min(0.9, tally * 0.15 + 0.1) and p0 = 1 - p1 in double arithmetic, with
\* p0 + p1 = 1.0 and 0.1 <= p1 <= 0.9, and the result is the same whatever
\* fbs, restecg, exang, oldpeak, slope, ca and thal are.
C1_FallbackScorer ==
    FallbackAnswer =>
        LET v == SentFeatures
            p0 == response.probability_no_disease
            p1 == response.probability_disease
        IN  /\ response.prediction = (IF Tally(v) >= 3 THEN 1 ELSE 0)
            /\ p1 = PyMin(D0_9, FAdd(FMulInt(Tally(v), D0_15), D0_1))
            /\ p1 = ScorerP1[Tally(v) + 1]
            /\ p0 = FSub(D1_0, p1)
            /\ FAdd(p0, p1) = D1_0
            /\ ~Less(p1, D0_1) /\ ~Less(D0_9, p1)
            /\ \A k \in UnusedFields, x \in OtherValues :
                  mock_prediction([v EXCEPT ![k] = PyNum(x)]) =
                      [raised |-> FALSE, prediction |-> response.prediction,
                       probability |-> <<p0, p1>>]

\* A fallback answer at the threshold, to a vector with an unused field set.
C1_Witness ==
    /\ FallbackAnswer
    /\ Tally(SentFeatures) = 3
    /\ response.prediction = 1
    /\ \E k \in UnusedFields : SentFeatures[k].v = 1

SixTrue(v) ==
    /\ v[1].v > 55 /\ v[2].v = 1 /\ v[3].v = 0
    /\ v[4].v > 140 /\ v[5].v > 240 /\ v[8].v < 120

\* 1 - 0.9 in double arithmetic: 0x1.9999999999998p-4 = 0.09999999999999998.
D1_minus_0_9 == <<1638, 13107, 6553, 19648>>

\* C2 as stated: with all six conditions true the risk_score is 6, the
\* label 1 and the probabilities exactly [0.1, 0.9]; no risk_score exceeds 6.
C2_Original ==
    FallbackAnswer =>
        /\ risk_score(SentFeatures) <= 6
        /\ SixTrue(SentFeatures) =>
              /\ risk_score(SentFeatures) = 6
              /\ response.prediction = 1
              /\ response.probability_no_disease = D0_1
              /\ response.probability_disease = D0_9

\* C2 amended: with all six conditions true the risk_score is 7 (cp == 0
\* counts 2), the label is 1, p1 is exactly 0.9 (clamped) and p0 is the
\* double 1 - 0.9 = 0.09999999999999998, not the double 0.1; 7 is the
\* largest risk_score the scorer reaches.
C2_AllSix ==
    FallbackAnswer =>
        /\ risk_score(SentFeatures) <= 7
        /\ SixTrue(SentFeatures) =>
              /\ risk_score(SentFeatures) = 7
              /\ response.prediction = 1
              /\ response.probability_no_disease = D1_minus_0_9
              /\ response.probability_no_disease # D0_1
              /\ response.probability_disease = D0_9

C2_Witness ==
    /\ FallbackAnswer
    /\ SixTrue(SentFeatures)
    /\ response.probability_disease = D0_9

\* C10: in every fallback answer the label agrees with the probabilities:
\* label 1 exactly when p1 > p0, equivalently p1 > 0.5, and p1 never equals
\* p0; so "High" never comes with p1 < p0 nor "Low" with p1 > p0.
C10_LabelAgrees ==
    (IsPost /\ UsedFallback /\ response.success) =>
        LET p0 == response.probability_no_disease
            p1 == response.probability_disease
        IN  /\ response.prediction = 1 <=> Less(p0, p1)
            /\ response.prediction = 1 <=> Less(D0_5, p1)
            /\ p1 # p0
            /\ response.risk_level = "High" => ~Less(p1, p0)
            /\ response.risk_level = "Low" => ~Less(p0, p1)

\* The nearest miss: tally 2, label 0, p1 = 0.4.
C10_Witness ==
    /\ FallbackAnswer
    /\ Tally(SentFeatures) = 2
    /\ response.prediction = 0
    /\ response.risk_level = "Low"
    /\ Less(response.probability_disease, response.probability_no_disease)

----------------------------------------------------------------------------
(* Predictor dispatch and validation                                       *)

\* C3 as stated: in both POST handlers an unloaded model means the scorer
\* alone answers, and a classifier that raises (in predict or in
\* predict_proba) is replaced by the scorer: the response is success=true
\* with the scorer's label and probabilities for the same features.
C3_Claim ==
    (IsPost /\ calls # <<>>) =>
        /\ ~model_loaded => calls = <<"mock_prediction">>
        /\ ClassifierFailed =>
              /\ response.success
              /\ ~mock_prediction(SentFeatures).raised
              /\ response.prediction = mock_prediction(SentFeatures).prediction
              /\ response.probability_no_disease =
                     mock_prediction(SentFeatures).probability[1]
              /\ response.probability_disease =
                     mock_prediction(SentFeatures).probability[2]

FieldNames(S) == {FEATURE_NAMES[i] : i \in S}

\* The error names field i and no other field of S.
NamesOnly(error, i, S) ==
    /\ Mentions(error, FEATURE_NAMES[i])
    /\ \A j \in S \ {i} : ~Mentions(error, FEATURE_NAMES[j])

\* C4: POST /predict with a field missing, empty or not a number answers
\* success=false, names the first such field in FEATURE_NAMES order, calls
\* no predictor and returns no prediction; with all 13 fields numeric it
\* answers success=true.
C4_FormValidation ==
    Responded("/predict") =>
        IF FormOffending # {}
        THEN /\ response.success = FALSE
             /\ NamesOnly(response.error, First(FormOffending), 1..NFeatures)
             /\ calls = <<>>
             /\ "prediction" \notin DOMAIN response
        ELSE response.success = TRUE

\* Two offending fields, the first of them not the first field.
C4_Witness ==
    /\ Responded("/predict")
    /\ Cardinality(FormOffending) = 2
    /\ First(FormOffending) = 2
    /\ response.success = FALSE
    /\ Mentions(response.error, "sex")

EmptyPayload == request.body.kind \in {"null", "bad"} \/ DOMAIN request.body.obj = {}

\* C5: POST /api/predict with an absent or empty payload (no JSON, null, {})
\* answers success=false; with a non-empty object that lacks a key it
\* answers success=false and names the first missing key in FEATURE_NAMES
\* order; neither calls the predictor.
C5_JsonValidation ==
    Responded("/api/predict") =>
        /\ EmptyPayload =>
              /\ response.success = FALSE
              /\ calls = <<>>
              /\ "prediction" \notin DOMAIN response
        /\ (~EmptyPayload /\ JsonMissing # {}) =>
              /\ response.success = FALSE
              /\ NamesOnly(response.error, First(JsonMissing), 1..NFeatures)
              /\ calls = <<>>
              /\ "prediction" \notin DOMAIN response

\* Only thal is missing, and another key before it holds a string.
C5_Witness ==
    /\ Responded("/api/predict")
    /\ JsonMissing = {13}
    /\ JsonNonNumeric # {}
    /\ response.success = FALSE
    /\ Mentions(response.error, "thal")

\* The fields of a request that are missing or not a number.
Offending ==
    IF request.path = "/predict" THEN FormOffending
    ELSE IF EmptyPayload THEN {}
    ELSE JsonMissing \cup JsonNonNumeric

\* C6 as stated: a form or JSON request with a missing or non-numeric field
\* is answered success=false with an error naming such a field; so is a
\* JSON object with all 13 keys of which one value is a string or null.
C6_Claim ==
    (IsPost /\ Offending # {}) =>
        /\ response.success = FALSE
        /\ \E i \in Offending : Mentions(response.error, FEATURE_NAMES[i])

----------------------------------------------------------------------------
(* The Model Handle and the probes                                         *)

Probes == {"/predict", "/api/predict", "/health", "/status"}

C7_State ==
    /\ pc # "boot" => model_loaded = StartupValue
    /\ (pc = "responded" /\ request.path \in Probes
            /\ "model_loaded" \in DOMAIN response) =>
          response.model_loaded = StartupValue
    /\ (pc = "responded" /\ request.path \in {"/health", "/status"}) =>
          "model_loaded" \in DOMAIN response
    /\ (IsPost /\ response.success) => "model_loaded" \in DOMAIN response
    /\ (IsPost /\ ~StartupValue /\ calls # <<>>) => calls = <<"mock_prediction">>

\* C7: the Model Handle is set by the load at startup and never changes:
\* model_loaded is true exactly when the file existed and unpickled then; a
\* failed load leaves the process serving every prediction from the scorer;
\* and every model_loaded flag in a reply of /predict, /api/predict,
\* /health or /status is that startup value, also when the classifier
\* failed and the scorer answered.
C7_ModelHandle ==
    /\ []C7_State
    /\ [][pc # "boot" => (model_loaded' = model_loaded /\ model' = model)]_vars

\* A reply of the scorer standing in for a classifier that raised.
C7_Witness ==
    /\ Responded("/predict")
    /\ ClassifierFailed
    /\ response.success
    /\ response.model_loaded = TRUE
    /\ artifact = "absent"

\* C8: GET /status reports model_file_exists as the file's presence when it
\* is called, not at startup, reports model_loaded as the startup value, and
\* changes no process state.
C8_StatusFile ==
    [][(pc = "idle" /\ pc' = "responded" /\ request'.path = "/status") =>
          /\ response'.model_file_exists = (artifact # "absent")
          /\ response'.model_loaded = StartupValue
          /\ UNCHANGED <<artifact, model, model_loaded, startup>>]_vars

\* The file was removed after a successful load: the two flags disagree.
C8_Witness ==
    /\ Responded("/status")
    /\ startup.exists
    /\ response.model_file_exists = FALSE
    /\ response.model_loaded = TRUE

\* C9: a success=true reply of either POST carries a prediction that is 0
\* or 1 and risk_level "High" exactly when it is 1, else "Low", whether the
\* classifier or the scorer answered; /predict echoes the 13 parsed inputs
\* as input_features and /api/predict has no input_features.
C9_ResponseShape ==
    (IsPost /\ response.success) =>
        /\ ClassifierAnswered \/ UsedFallback
        /\ response.prediction \in {0, 1}
        /\ response.risk_level = (IF response.prediction = 1 THEN "High" ELSE "Low")
        /\ request.path = "/predict" =>
              /\ "input_features" \in DOMAIN response
              /\ DOMAIN response.input_features = FieldNames(1..NFeatures)
              /\ \A i \in 1..NFeatures :
                    response.input_features[FEATURE_NAMES[i]] =
                        PyFloat(request.form[FEATURE_NAMES[i]]).v
        /\ request.path = "/api/predict" => "input_features" \notin DOMAIN response

\* The classifier answered 1 against its own probabilities.
C9_Witness ==
    /\ Responded("/api/predict")
    /\ ClassifierAnswered
    /\ response.success
    /\ response.prediction = 1
    /\ response.risk_level = "High"
    /\ Less(response.probability_disease, response.probability_no_disease)

====
